---------------------------- MODULE Spec2Model ----------------------------
(* A model of the UNIQA fund pipeline of src/main.py: link resolution,      *)
(* series extraction, return computation, per-fund validation and the       *)
(* order in which main() writes its outputs.                                *)
(*                                                                          *)
(* Text is modelled as a sequence of one-character strings, so that the     *)
(* string operations of the source (startswith, in, strip, replace, lower,  *)
(* re.search, float) are computed, not assumed.  A Python dict is modelled  *)
(* as a sequence of <<key, value>> pairs in insertion order.                *)
EXTENDS Integers, Sequences, FiniteSets, TLC

VARIABLES
    cfg,                 \* the configuration: periods and funds
    pc,                  \* the place of the run in main()
    exc,                 \* the exception that ended the run, "" if none
    fi,                  \* position of the loop over cfg["funds"]
    pi,                  \* position of the loop over periods
    page,                \* the hrefs of the anchors of the fetched page
    download_links,      \* period -> URL
    dfs_by_period,       \* period -> decoded table
    series_by_period,    \* period -> series kept for the validation
    snap,                \* the snapshot of the current fund
    snaps,               \* the snapshots of the run
    validation_results,  \* the validation results of the run
    files,               \* the output files
    files0               \* the output files as the run found them

vars == <<cfg, pc, exc, fi, pi, page, download_links, dfs_by_period,
          series_by_period, snap, snaps, validation_results, files, files0>>

---------------------------------------------------------------------------
(* Bounds of the model.                                                     *)

MaxFunds == 2

MaxLinks == 3

---------------------------------------------------------------------------
(* Python's None where a text is expected: a value no text equals.          *)
None == <<"None">>

---------------------------------------------------------------------------
(* Text.                                                                    *)

Digits == <<"0", "1", "2", "3", "4", "5", "6", "7", "8", "9">>

IsDigit(c) == \E i \in 1..10 : Digits[i] = c

DigitVal(c) == (CHOOSE i \in 1..10 : Digits[i] = c) - 1

Upper == <<"A","B","C","D","E","F","G","H","I","J","K","L","M",
           "N","O","P","Q","R","S","T","U","V","W","X","Y","Z">>

LowerLetters == <<"a","b","c","d","e","f","g","h","i","j","k","l","m",
                  "n","o","p","q","r","s","t","u","v","w","x","y","z">>

\* The no-break space U+00A0, one character of the text.
NBSP == "NBSP"

IsSpace(c) == c \in {" ", "\t", NBSP}

\* str.lower()
Lower(s) ==
    [i \in 1..Len(s) |->
        IF \E k \in 1..26 : Upper[k] = s[i]
        THEN LowerLetters[CHOOSE k \in 1..26 : Upper[k] = s[i]]
        ELSE s[i]]

\* s[i:].startswith(sub), i counted from 1
MatchAt(s, i, sub) ==
    /\ i + Len(sub) - 1 <= Len(s)
    /\ \A k \in 1..Len(sub) : s[i + k - 1] = sub[k]

\* str.startswith
StartsWith(s, pre) == MatchAt(s, 1, pre)

\* sub in s
Contains(s, sub) == \E i \in 1..(Len(s) + 1) : MatchAt(s, i, sub)

Drop(s, n) == SubSeq(s, n + 1, Len(s))

\* str.strip(): leading and trailing whitespace removed
RECURSIVE LStripSpace(_)
LStripSpace(s) ==
    IF s # <<>> /\ IsSpace(Head(s)) THEN LStripSpace(Tail(s)) ELSE s

RECURSIVE RStripSpace(_)
RStripSpace(s) ==
    IF s # <<>> /\ IsSpace(s[Len(s)])
    THEN RStripSpace(SubSeq(s, 1, Len(s) - 1)) ELSE s

Strip(s) == RStripSpace(LStripSpace(s))

\* str.lstrip(c) and str.rstrip(c) for a single character c
RECURSIVE LStripChar(_, _)
LStripChar(s, c) ==
    IF s # <<>> /\ Head(s) = c THEN LStripChar(Tail(s), c) ELSE s

RECURSIVE RStripChar(_, _)
RStripChar(s, c) ==
    IF s # <<>> /\ s[Len(s)] = c
    THEN RStripChar(SubSeq(s, 1, Len(s) - 1), c) ELSE s

\* str.replace(old, new), old non-empty: left to right, non-overlapping
RECURSIVE Replace(_, _, _)
Replace(s, old, new) ==
    IF s = <<>> THEN <<>>
    ELSE IF MatchAt(s, 1, old) THEN new \o Replace(Drop(s, Len(old)), old, new)
    ELSE <<Head(s)>> \o Replace(Tail(s), old, new)

\* the longest run of digits at the start of s
RECURSIVE DigitRun(_)
DigitRun(s) ==
    IF s # <<>> /\ IsDigit(Head(s)) THEN <<Head(s)>> \o DigitRun(Tail(s))
    ELSE <<>>

\* int() of a non-empty sequence of digits
RECURSIVE ParseInt(_)
ParseInt(ds) ==
    IF ds = <<>> THEN 0
    ELSE 10 * ParseInt(SubSeq(ds, 1, Len(ds) - 1)) + DigitVal(ds[Len(ds)])

\* str() of a natural number
RECURSIVE NatToStr(_)
NatToStr(n) ==
    IF n < 10 THEN <<Digits[n + 1]>>
    ELSE NatToStr(n \div 10) \o <<Digits[(n % 10) + 1]>>

---------------------------------------------------------------------------
(* Python dicts, in insertion order.                                        *)

Keys(d) == [i \in 1..Len(d) |-> d[i][1]]

KeySet(d) == {d[i][1] : i \in 1..Len(d)}

HasKey(d, k) == \E i \in 1..Len(d) : d[i][1] = k

\* d[k], k a key of d
Get(d, k) == d[CHOOSE i \in 1..Len(d) : d[i][1] = k][2]

\* d.get(k, default)
GetOr(d, k, default) == IF HasKey(d, k) THEN Get(d, k) ELSE default

\* d[k] = v: an existing key keeps its place, a new key goes last
Put(d, k, v) ==
    IF HasKey(d, k)
    THEN [i \in 1..Len(d) |-> IF d[i][1] = k THEN <<k, v>> ELSE d[i]]
    ELSE Append(d, <<k, v>>)

---------------------------------------------------------------------------
(* Link Resolver: find_download_links.  The markup is modelled as the      *)
(* sequence of the href values of its anchors, in document order.          *)

S_FUNDID == <<"f","u","n","d","I","d","=">>

S_FUNDTYPE_TFI == <<"f","u","n","d","T","y","p","e","=","t","f","i">>

S_PERIOD == <<"p","e","r","i","o","d","=">>

S_HTTP == <<"h","t","t","p">>

\* "https://www.uniqa.pl"
ORIGIN == <<"h","t","t","p","s",":","/","/","w","w","w",".","u","n","i","q","a",".","p","l">>

\* the periods the resolver keeps: (1, 3, 6, 12, 24)
LinkPeriods == {1, 3, 6, 12, 24}

\* re.search(r"[?&]period=(\d+)", href): the first place the pattern matches
PeriodMatchAt(href, i) ==
    /\ href[i] \in {"?", "&"}
    /\ MatchAt(href, i + 1, S_PERIOD)
    /\ i + Len(S_PERIOD) + 1 <= Len(href)
    /\ IsDigit(href[i + Len(S_PERIOD) + 1])

\* m is not None
HasPeriodMatch(href) == \E i \in 1..Len(href) : PeriodMatchAt(href, i)

\* int(m.group(1)), for a href the pattern matches
PeriodOf(href) ==
    LET i == CHOOSE i \in 1..Len(href) :
                 /\ PeriodMatchAt(href, i)
                 /\ \A j \in 1..(i - 1) : ~PeriodMatchAt(href, j)
    IN ParseInt(DigitRun(Drop(href, i + Len(S_PERIOD))))

\* the three markers of a candidate link
HasMarkers(href) ==
    /\ Contains(href, S_FUNDID)
    /\ Contains(href, S_FUNDTYPE_TFI)
    /\ Contains(href, S_PERIOD)

\* the URL stored for a kept link
ResolveHref(href, base_url) ==
    IF StartsWith(href, <<"/">>) THEN ORIGIN \o href
    ELSE IF StartsWith(href, S_HTTP) THEN href
    ELSE RStripChar(base_url, "/") \o <<"/">> \o LStripChar(href, "/")

\* LinkStep with the first link of a period kept
LinkStep_FirstWins(out, href, base_url) ==
    IF HasMarkers(href) /\ HasPeriodMatch(href)
    THEN LET p == PeriodOf(href)
         IN IF p \in LinkPeriods /\ ~HasKey(out, p)
            THEN Put(out, p, ResolveHref(href, base_url))
            ELSE out
    ELSE out

\* one turn of the loop over the links
LinkStep(out, href, base_url) ==
    IF HasMarkers(href) /\ HasPeriodMatch(href)
    THEN LET p == PeriodOf(href)
         IN IF p \in LinkPeriods THEN Put(out, p, ResolveHref(href, base_url))
            ELSE out
    ELSE out

RECURSIVE LinkFold(_, _, _)
LinkFold(out, links, base_url) ==
    IF links = <<>> THEN out
    ELSE LinkFold(LinkStep(out, Head(links), base_url), Tail(links), base_url)

find_download_links(html, base_url) == LinkFold(<<>>, html, base_url)

---------------------------------------------------------------------------
(* Python floats.  A finite float is its sign and its magnitude in          *)
(* hundredths (the cells of the model carry at most two fractional          *)
(* digits); inf and nan are kept apart, as float() produces them.           *)

Fin(sg, n) == [k |-> "fin", sg |-> sg, n |-> n]

Inf(sg) == [k |-> "inf", sg |-> sg, n |-> 0]

NaN == [k |-> "nan", sg |-> 1, n |-> 0]

\* None where a float is expected
NoFloat == [k |-> "none", sg |-> 1, n |-> 0]

S_NAN == <<"n","a","n">>

S_INF == <<"i","n","f">>

S_INFINITY == <<"i","n","f","i","n","i","t","y">>

S_PLN == <<"P","L","N">>

AllDigits(s) == \A i \in 1..Len(s) : IsDigit(s[i])

\* the unsigned decimal forms float() accepts: "12", "12.5", "12.", ".5"
IsDecimal(u) ==
    \/ u # <<>> /\ AllDigits(u)
    \/ \E i \in 1..Len(u) :
          /\ u[i] = "."
          /\ AllDigits(SubSeq(u, 1, i - 1))
          /\ AllDigits(Drop(u, i))
          /\ Len(u) > 1

\* the magnitude of an unsigned decimal, in hundredths
DecimalHundredths(u) ==
    IF AllDigits(u) THEN 100 * ParseInt(u)
    ELSE LET i == CHOOSE i \in 1..Len(u) : u[i] = "."
             frac == SubSeq(Drop(u, i) \o <<"0", "0">>, 1, 2)
         IN 100 * ParseInt(SubSeq(u, 1, i - 1)) + ParseInt(frac)

\* float(s) of a stripped text; NoFloat stands for the ValueError
PyFloat(s) ==
    LET sg == IF s # <<>> /\ Head(s) = "-" THEN -1 ELSE 1
        u  == IF s # <<>> /\ Head(s) \in {"+", "-"} THEN Tail(s) ELSE s
    IN IF Lower(u) \in {S_INF, S_INFINITY} THEN Inf(sg)
       ELSE IF Lower(u) = S_NAN THEN NaN
       ELSE IF IsDecimal(u) THEN Fin(sg, DecimalHundredths(u))
       ELSE NoFloat

\* f"{v:.2f}".replace(".", ",")
Format2(v) ==
    IF v.k = "nan" THEN S_NAN
    ELSE IF v.k = "inf" THEN (IF v.sg < 0 THEN <<"-">> ELSE <<>>) \o S_INF
    ELSE (IF v.sg < 0 THEN <<"-">> ELSE <<>>)
         \o NatToStr(v.n \div 100) \o <<",">>
         \o <<Digits[((v.n \div 10) % 10) + 1], Digits[(v.n % 10) + 1]>>

\* last / first raises ZeroDivisionError
DivRaises(first) == first.k = "fin" /\ first.n = 0

\* (last / first - 1.0) * 100.0, first not zero; a finite result is in
\* hundredths of a percent, rounded to the nearest
ReturnOf(first, last) ==
    IF first.k = "nan" \/ last.k = "nan" THEN NaN
    ELSE IF first.k = "inf" /\ last.k = "inf" THEN NaN
    ELSE IF last.k = "inf" THEN Inf(last.sg * first.sg)
    ELSE IF first.k = "inf" THEN Fin(-1, 10000)
    ELSE LET a    == last.sg * last.n
             b    == first.sg * first.n
             diff == IF a >= b THEN a - b ELSE b - a
             den  == first.n
             q    == (10000 * diff) \div den
             r    == (10000 * diff) % den
         IN Fin(IF (a < b) = (b > 0) THEN -1 ELSE 1,
                IF 2 * r >= den THEN q + 1 ELSE q)

---------------------------------------------------------------------------
(* Series Extractor.  A table is [cols, rows]: the column labels and the    *)
(* rows, each cell being the text str() gives for it; an empty cell of      *)
(* pandas is the float nan, whose text is "nan".                            *)

S_DATA == <<"d","a","t","a">>

S_WART == <<"w","a","r","t">>

S_VALUE == <<"v","a","l","u","e">>

\* _to_float_pl for a cell that is not None
_to_float_pl(x) ==
    LET s == Strip(x)
    IN IF s = <<>> \/ Lower(s) = S_NAN THEN NoFloat
       ELSE LET s1 == Replace(s, <<NBSP>>, <<" ">>)
                s2 == Replace(s1, <<" ">>, <<>>)
                s3 == Replace(s2, <<",">>, <<".">>)
                s4 == Strip(Replace(s3, S_PLN, <<>>))
            IN PyFloat(Strip(s4))

\* _clean_date for a cell that is not None
_clean_date(x) ==
    LET s == Strip(x)
    IN IF s = <<>> \/ Lower(s) = S_NAN THEN None ELSE s

\* df.dropna(axis=1, how="all"): the columns with a non-empty cell
KeptColumns(df) ==
    SelectSeq([j \in 1..Len(df.cols) |-> j],
              LAMBDA j : \E i \in 1..Len(df.rows) : df.rows[i][j] # S_NAN)

dropna(df) ==
    LET keep == KeptColumns(df)
    IN [cols |-> [j \in 1..Len(keep) |-> df.cols[keep[j]]],
        rows |-> [i \in 1..Len(df.rows) |->
                     [j \in 1..Len(keep) |-> df.rows[i][keep[j]]]]]

\* the position of the first TRUE of a sequence of booleans, or 0
FirstTrue(bs) ==
    IF \E j \in 1..Len(bs) : bs[j]
    THEN CHOOSE j \in 1..Len(bs) : bs[j] /\ \A i \in 1..(j - 1) : ~bs[i]
    ELSE 0

IsDateLabel(lc) == Contains(lc, S_DATA)

IsValueLabel(lc) == Contains(lc, S_WART) \/ Contains(lc, S_VALUE)

\* the row is kept by the loop of _extract_series
RowKept(d, v) ==
    /\ ~(d # None /\ StartsWith(Lower(d), S_DATA))
    /\ v # NoFloat
    /\ d # None

RECURSIVE SeriesOfRows(_, _, _)
SeriesOfRows(rows, dc, vc) ==
    IF rows = <<>> THEN [dates |-> <<>>, vals |-> <<>>]
    ELSE LET d    == _clean_date(Head(rows)[dc])
             v    == _to_float_pl(Head(rows)[vc])
             rest == SeriesOfRows(Tail(rows), dc, vc)
         IN IF RowKept(d, v)
            THEN [dates |-> <<d>> \o rest.dates, vals |-> <<v>> \o rest.vals]
            ELSE rest

\* the positions of the date column and of the value column, <<0, 0>> when
\* the table has no two columns to fall back on
SeriesColumns(df) ==
    LET cols == [j \in 1..Len(df.cols) |-> Strip(df.cols[j])]
        dc   == FirstTrue([j \in 1..Len(cols) |-> IsDateLabel(Lower(cols[j]))])
        vc   == FirstTrue([j \in 1..Len(cols) |-> IsValueLabel(Lower(cols[j]))])
    IN IF dc # 0 /\ vc # 0 THEN <<dc, vc>>
       ELSE IF Len(cols) >= 2 THEN <<1, 2>>
       ELSE <<0, 0>>

_extract_series(df) ==
    LET c == SeriesColumns(df)
    IN IF c = <<0, 0>> THEN [dates |-> <<>>, vals |-> <<>>]
       ELSE SeriesOfRows(df.rows, c[1], c[2])

---------------------------------------------------------------------------
(* Return Calculator: normalize_snapshot_from_dfs.                          *)

\* nav_preference = [1, 3, 6, 12, 24]
nav_preference == {1, 3, 6, 12, 24}

\* the clock is not modelled: every timestamp of the run is this token
NOW == <<"now">>

\* the state of the loop over dfs_by_period.items(); raised is set when the
\* division raised ZeroDivisionError, which ends the function
NormStep(acc, p, df) ==
    IF acc.raised THEN acc
    ELSE LET ser == _extract_series(dropna(df))
             n   == Len(ser.vals)
         IN IF n >= 2 /\ DivRaises(ser.vals[1]) THEN [acc EXCEPT !.raised = TRUE]
            ELSE LET rets == IF n >= 2
                             THEN Put(acc.returns, p,
                                      Format2(ReturnOf(ser.vals[1], ser.vals[n]))
                                          \o <<"%">>)
                             ELSE acc.returns
                     set  == /\ (acc.nav = None \/ acc.as_of = None)
                             /\ p \in nav_preference
                             /\ n >= 1
                 IN [returns |-> rets,
                     nav     |-> IF set THEN Format2(ser.vals[n]) ELSE acc.nav,
                     as_of   |-> IF set THEN ser.dates[n] ELSE acc.as_of,
                     raised  |-> FALSE]

RECURSIVE NormFold(_, _)
NormFold(acc, items) ==
    IF items = <<>> THEN acc
    ELSE NormFold(NormStep(acc, Head(items)[1], Head(items)[2]), Tail(items))

NormResult(dfs) ==
    NormFold([returns |-> <<>>, nav |-> None, as_of |-> None, raised |-> FALSE], dfs)

\* normalize_snapshot_from_dfs raises
NormalizeRaises(dfs) == NormResult(dfs).raised

\* the FundSnapshot it returns otherwise
normalize_snapshot_from_dfs(fund_name, dfs) ==
    LET r == NormResult(dfs)
    IN [timestamp_utc |-> NOW, fund_name |-> fund_name,
        as_of |-> r.as_of, nav |-> r.nav, returns |-> r.returns]

---------------------------------------------------------------------------
(* Literal texts of the source; a character outside ASCII is written as     *)
(* its code point, one element of the text.                                 *)

\* "timestamp_utc"
T_timestamp_utc ==
    <<"t","i","m","e","s","t","a","m","p","_","u","t","c">>

\* "fund_name"
T_fund_name ==
    <<"f","u","n","d","_","n","a","m","e">>

\* "as_of"
T_as_of ==
    <<"a","s","_","o","f">>

\* "nav"
T_nav ==
    <<"n","a","v">>

\* "ret_"
T_ret ==
    <<"r","e","t","_">>

\* "brak"
T_brak ==
    <<"b","r","a","k">>

\* "  As of: "
T_As_of ==
    <<" "," ","A","s"," ","o","f",":"," ">>

\* "  NAV: "
T_NAV ==
    <<" "," ","N","A","V",":"," ">>

\* " PLN"
T_PLN ==
    <<" ","P","L","N">>

\* "brak danych"
T_brak_danych ==
    <<"b","r","a","k"," ","d","a","n","y","c","h">>

\* "UNIQA ? snapshot danych (miesi?czny) [download-first]"
T_UNIQA_snapshot_danych_miesiczny_download_first ==
    <<"U","N","I","Q","A"," ","U+2013"," ","s","n","a","p","s","h","o","t",
    " ","d","a","n","y","c","h"," ","(","m","i","e","s","i","U+0119","c",
    "z","n","y",")"," ","[","d","o","w","n","l","o","a","d","-","f","i","r",
    "s","t","]">>

\* "Wygenerowano (UTC): "
T_Wygenerowano_UTC ==
    <<"W","y","g","e","n","e","r","o","w","a","n","o"," ","(","U","T","C",
    ")",":"," ">>

\* "  Seria bazowa: "
T_Seria_bazowa ==
    <<" "," ","S","e","r","i","a"," ","b","a","z","o","w","a",":"," ">>

\* "M | "
T_M_bar ==
    <<"M"," ","|"," ">>

\* " ? "
T_arrow ==
    <<" ","U+2192"," ">>

\* " | punkt?w: "
T_punktow ==
    <<" ","|"," ","p","u","n","k","t","U+00F3","w",":"," ">>

\* " [OK]"
T_OK ==
    <<" ","[","O","K","]">>

\* " [PROBLEM]"
T_PROBLEM ==
    <<" ","[","P","R","O","B","L","E","M","]">>

\* "  Brak link?w 'Pobierz' dla okres?w: "
T_Brak_linkw_Pobierz_dla_okresw ==
    <<" "," ","B","r","a","k"," ","l","i","n","k","U+00F3","w"," ","'","P",
    "o","b","i","e","r","z","'"," ","d","l","a"," ","o","k","r","e","s",
    "U+00F3","w",":"," ">>

\* "  Nie pobrano plik?w dla okres?w: "
T_Nie_pobrano_plikw_dla_okresw ==
    <<" "," ","N","i","e"," ","p","o","b","r","a","n","o"," ","p","l","i",
    "k","U+00F3","w"," ","d","l","a"," ","o","k","r","e","s","U+00F3","w",
    ":"," ">>

\* "  Pusta/za kr?tka seria (Data/Warto??) dla okres?w: "
T_Pusta_za_krtka_seria_Data_Warto_dla_okresw ==
    <<" "," ","P","u","s","t","a","/","z","a"," ","k","r","U+00F3","t","k",
    "a"," ","s","e","r","i","a"," ","(","D","a","t","a","/","W","a","r","t",
    "o","U+015B","U+0107",")"," ","d","l","a"," ","o","k","r","e","s",
    "U+00F3","w",":"," ">>

\* "  Nie policzono trailing returns dla: "
T_Nie_policzono_trailing_returns_dla ==
    <<" "," ","N","i","e"," ","p","o","l","i","c","z","o","n","o"," ","t",
    "r","a","i","l","i","n","g"," ","r","e","t","u","r","n","s"," ","d","l",
    "a",":"," ">>

\* "WALIDACJA ? pobranie i obliczenia (UNIQA)"
T_WALIDACJA_pobranie_i_obliczenia_UNIQA ==
    <<"W","A","L","I","D","A","C","J","A"," ","U+2013"," ","p","o","b","r",
    "a","n","i","e"," ","i"," ","o","b","l","i","c","z","e","n","i","a"," ",
    "(","U","N","I","Q","A",")">>

\* "Fundusze ??cznie: "
T_Fundusze_cznie ==
    <<"F","u","n","d","u","s","z","e"," ","U+0142","U+0105","c","z","n","i",
    "e",":"," ">>

\* "OK: "
T_OK_count ==
    <<"O","K",":"," ">>

\* "Z problemami: "
T_Z_problemami ==
    <<"Z"," ","p","r","o","b","l","e","m","a","m","i",":"," ">>

---------------------------------------------------------------------------
(* Completeness Validator: validate_fund.                                   *)

\* the periods scanned for the base series: [24, 12, 6, 3, 1]
BaseScan == <<24, 12, 6, 3, 1>>

\* s and len(s) >= 2, for s = series_by_period.get(p)
IsBase(series, p) == HasKey(series, p) /\ Len(Get(series, p)) >= 2

\* base_period, 0 standing for None
BasePeriod(series) ==
    IF \E i \in 1..Len(BaseScan) : IsBase(series, BaseScan[i])
    THEN BaseScan[CHOOSE i \in 1..Len(BaseScan) :
                      /\ IsBase(series, BaseScan[i])
                      /\ \A j \in 1..(i - 1) : ~IsBase(series, BaseScan[j])]
    ELSE 0

\* base_range, the empty sequence standing for None; the dates are kept as
\* the series holds them
BaseRange(series) ==
    IF BasePeriod(series) = 0 THEN <<>>
    ELSE LET s == Get(series, BasePeriod(series))
         IN <<s[1][1], s[Len(s)][1], Len(s)>>

validate_fund(fund_name, links, dfs, series, computed_returns, periods_expected) ==
    LET missing_links   == SelectSeq(periods_expected, LAMBDA p : ~HasKey(links, p))
        missing_files   == SelectSeq(periods_expected, LAMBDA p : ~HasKey(dfs, p))
        empty_series    == SelectSeq(periods_expected,
                               LAMBDA p : HasKey(dfs, p) /\ Len(GetOr(series, p, <<>>)) < 2)
        missing_returns == SelectSeq(periods_expected,
                               LAMBDA p : ~HasKey(computed_returns, p))
    IN [fund              |-> fund_name,
        ok                |-> /\ Len(missing_links) = 0
                              /\ Len(missing_files) = 0
                              /\ Len(empty_series) = 0,
        missing_links     |-> missing_links,
        missing_files     |-> missing_files,
        empty_series      |-> empty_series,
        missing_returns   |-> missing_returns,
        base_period_used  |-> BasePeriod(series),
        base_series_range |-> BaseRange(series)]

---------------------------------------------------------------------------
(* The output files.  A file is [exists, lines]; a line of a CSV file is    *)
(* the sequence of its cells, a line of a text file is a text.              *)

NoFile == [exists |-> FALSE, lines |-> <<>>]

\* the lines of a sequence of blocks of lines
RECURSIVE Flatten(_)
Flatten(blocks) ==
    IF blocks = <<>> THEN <<>> ELSE Head(blocks) \o Flatten(Tail(blocks))

\* headers(periods)
headers(periods) ==
    <<T_timestamp_utc, T_fund_name, T_as_of, T_nav>>
    \o [i \in 1..Len(periods) |-> T_ret \o NatToStr(periods[i]) \o <<"m">>]

\* csv writes None as the empty text
CsvCell(x) == IF x = None THEN <<>> ELSE x

\* the row DictWriter writes for a snapshot
CsvRow(s, periods) ==
    <<s.timestamp_utc, s.fund_name, CsvCell(s.as_of), CsvCell(s.nav)>>
    \o [i \in 1..Len(periods) |-> CsvCell(GetOr(s.returns, periods[i], None))]

\* append_history with the file opened for writing, not for appending
append_history_Truncates(history, s, periods) ==
    [exists |-> TRUE, lines |-> <<headers(periods), CsvRow(s, periods)>>]

\* append_history: the header goes first when the file did not exist
append_history(history, s, periods) ==
    [exists |-> TRUE,
     lines  |-> (IF history.exists THEN history.lines ELSE <<headers(periods)>>)
                \o <<CsvRow(s, periods)>>]

\* write_latest
write_latest(ss, periods) ==
    [exists |-> TRUE,
     lines  |-> <<headers(periods)>> \o [i \in 1..Len(ss) |-> CsvRow(ss[i], periods)]]

\* x or 'brak'
OrBrak(x) == IF x = None \/ x = <<>> THEN T_brak ELSE x

ReportFund(s, periods) ==
    << <<"-", " ">> \o s.fund_name,
       T_As_of \o OrBrak(s.as_of),
       T_NAV \o OrBrak(s.nav) \o T_PLN >>
    \o [i \in 1..Len(periods) |->
           <<" ", " ">> \o NatToStr(periods[i]) \o <<"M", ":", " ">>
           \o GetOr(s.returns, periods[i], T_brak_danych)]
    \o << <<>> >>

\* write_report
write_report(ss, periods) ==
    [exists |-> TRUE,
     lines  |-> << T_UNIQA_snapshot_danych_miesiczny_download_first,
                   T_Wygenerowano_UTC \o NOW,
                   <<>> >>
                \o Flatten([i \in 1..Len(ss) |-> ReportFund(ss[i], periods)])]

\* the summary write_validation_reports builds
Summary(results) ==
    [funds_total       |-> Len(results),
     funds_ok          |-> Len(SelectSeq(results, LAMBDA r : r.ok)),
     funds_with_issues |-> Len(SelectSeq(results, LAMBDA r : ~r.ok)),
     issues            |-> results]

\* the JSON report holds the summary itself
write_validation_json(results) ==
    [exists |-> TRUE, lines |-> <<Summary(results)>>]

\* str() of a list of integers: "[1, 3]"
RECURSIVE ListItems(_)
ListItems(xs) ==
    IF xs = <<>> THEN <<>>
    ELSE IF Len(xs) = 1 THEN NatToStr(xs[1])
    ELSE NatToStr(xs[1]) \o <<",", " ">> \o ListItems(Tail(xs))

ListRepr(xs) == <<"[">> \o ListItems(xs) \o <<"]">>

\* the line of a list of periods, when the list is not empty
IssueLine(label, xs) == IF xs = <<>> THEN <<>> ELSE <<label \o ListRepr(xs)>>

BaseLine(r) ==
    IF r.base_period_used = 0 THEN <<>>
    ELSE << T_Seria_bazowa \o NatToStr(r.base_period_used) \o T_M_bar
            \o r.base_series_range[1] \o T_arrow \o r.base_series_range[2]
            \o T_punktow \o NatToStr(r.base_series_range[3]) >>

ValidationFund(r) ==
    << <<"-", " ">> \o r.fund \o (IF r.ok THEN T_OK ELSE T_PROBLEM) >>
    \o BaseLine(r)
    \o IssueLine(T_Brak_linkw_Pobierz_dla_okresw, r.missing_links)
    \o IssueLine(T_Nie_pobrano_plikw_dla_okresw, r.missing_files)
    \o IssueLine(T_Pusta_za_krtka_seria_Data_Warto_dla_okresw, r.empty_series)
    \o IssueLine(T_Nie_policzono_trailing_returns_dla, r.missing_returns)
    \o << <<>> >>

write_validation_txt(results) ==
    [exists |-> TRUE,
     lines  |-> << T_WALIDACJA_pobranie_i_obliczenia_UNIQA,
                   <<>>,
                   T_Fundusze_cznie \o NatToStr(Summary(results).funds_total),
                   T_OK_count \o NatToStr(Summary(results).funds_ok),
                   T_Z_problemami \o NatToStr(Summary(results).funds_with_issues),
                   <<>> >>
                \o Flatten([i \in 1..Len(results) |-> ValidationFund(results[i])])]

---------------------------------------------------------------------------
(* The inputs of a run: the configuration, and what the site serves.        *)

\* the i-th configured fund; the page URL of an odd fund ends with a slash
Fund(i) ==
    [name |-> <<"F">> \o NatToStr(i),
     url  |-> <<"h","t","t","p",":","/","/","u","/">> \o NatToStr(i) \o (IF i % 2 = 1 THEN <<"/">> ELSE <<>>)]

Funds(n) == [i \in 1..n |-> Fund(i)]

\* cfg.get("periods", [1, 3, 6, 12, 24])
DefaultPeriods == <<1, 3, 6, 12, 24>>

\* the configured period lists of the runs explored
PeriodLists == {<<1, 3>>, <<3, 1>>, <<1>>, <<2, 1>>}

Configs ==
    {[periods |-> ps, funds |-> Funds(n)] : ps \in PeriodLists, n \in 0..MaxFunds}

\* the query of a download link, up to the value of its period
Query == <<"?","f","u","n","d","I","d","=","7","&","f","u","n","d","T","y","p","e","=","t","f","i","&","p","e","r","i","o","d","=">>

H_root1 == <<"/","d">> \o Query \o <<"1">>

H_root1b == <<"/","e">> \o Query \o <<"1","&","c","u","r","r","e","n","c","y","=","P","L","N">>

H_abs1 == <<"h","t","t","p","s",":","/","/","x",".","p","l","/","d">> \o Query \o <<"1">>

H_rel3 == <<"d">> \o Query \o <<"3">>

H_scheme3 == <<"/","/","x",".","p","l","/","d">> \o Query \o <<"3">>

H_root2 == <<"/","d">> \o Query \o <<"2">>

H_root12 == <<"/","d">> \o Query \o <<"1","2">>

\* no fundId marker
H_noid1 == <<"/","n","?","f","u","n","d","T","y","p","e","=","t","f","i","&","p","e","r","i","o","d","=","1">>

\* the three markers, and a period the pattern does not match
H_nomatch1 == <<"/","x","?","f","u","n","d","I","d","=","7","&","f","u","n","d","T","y","p","e","=","t","f","i","&","x","p","e","r","i","o","d","=","1">>

Hrefs == {H_root1, H_root1b, H_abs1, H_rel3, H_scheme3, H_root2, H_root12,
          H_noid1, H_nomatch1}

\* the sequences over S of length at most n
RECURSIVE SeqsUpTo(_, _)
SeqsUpTo(S, n) ==
    IF n = 0 THEN {<<>>}
    ELSE LET shorter == SeqsUpTo(S, n - 1)
         IN shorter \cup {Append(s, x) : s \in shorter, x \in S}

\* the pages of the link-resolution runs: up to MaxLinks links each
RichPages == SeqsUpTo(Hrefs, MaxLinks)

\* the pages of the full runs
SmallPages == {<<H_root1, H_rel3>>, <<H_abs1>>, <<H_root2, H_scheme3>>}

DateLabel == <<"D","a","t","a",":">>

ValueLabel == <<"W","a","r","t","o","U+015B","U+0107",":">>

D1 == <<"0","1",".","0","1",".","2","0","2","4">>

D2 == <<"0","1",".","0","2",".","2","0","2","4">>

\* two points: a return of 5,50%
TB_good == [cols |-> <<DateLabel, ValueLabel>>,
            rows |-> << <<D1, <<"1","0","0",",","0","0">>>>, <<D2, <<"1","0","5",",","5","0">>>> >>]

\* two points, the first value zero
TB_zero == [cols |-> <<DateLabel, ValueLabel>>,
            rows |-> << <<D1, <<"0",",","0","0">>>>, <<D2, <<"1","0","5",",","5","0">>>> >>]

\* one point, with thousands separators and the currency marker
TB_one == [cols |-> <<<<"D","a","t","e">>, <<"K","u","r","s">>, <<"U","w","a","g","i">>>>,
           rows |-> << <<D2, <<"1"," ","0","0","0",",","5","0"," ","P","L","N">>, S_NAN>>,
                       <<<<"n","a","n">>, <<"7",",","0","0">>, S_NAN>> >>]

\* unlabelled columns, a repeated header row, an unparsable value, and a
\* value float() reads as infinity
TB_inf == [cols |-> <<<<"U","n","n","a","m","e","d",":"," ","0">>, <<"U","n","n","a","m","e","d",":"," ","1">>>>,
           rows |-> << <<DateLabel, ValueLabel>>,
                       <<D1, <<"i","n","f">>>>,
                       <<<<" ","D","A","T","A"," ","2">>, <<"3",",","0","0">>>>,
                       <<D1, <<"1",".","0","0","0",",","5","0">>>>,
                       <<D2, <<"1","0","0",".","0">>>> >>]

Tables == {TB_good, TB_zero, TB_one, TB_inf}

\* the files an earlier run over another fund left behind
EarlierSnap ==
    [timestamp_utc |-> <<"earlier">>, fund_name |-> <<"Z">>,
     as_of |-> D1, nav |-> <<"1",",","0","0">>, returns |-> <<>>]

EarlierResult == validate_fund(<<"Z">>, <<>>, <<>>, <<>>, <<>>, <<>>)

PriorFiles(periods) ==
    [history         |-> append_history(NoFile, EarlierSnap, periods),
     latest          |-> write_latest(<<EarlierSnap>>, periods),
     report          |-> write_report(<<EarlierSnap>>, periods),
     validation_json |-> write_validation_json(<<EarlierResult>>),
     validation_txt  |-> write_validation_txt(<<EarlierResult>>)]

NoFiles ==
    [history |-> NoFile, latest |-> NoFile, report |-> NoFile,
     validation_json |-> NoFile, validation_txt |-> NoFile]

---------------------------------------------------------------------------
(* main().  pc is the place of the run; fi and pi are the positions of the  *)
(* loops over cfg["funds"] and periods.                                     *)

NoSnap ==
    [timestamp_utc |-> None, fund_name |-> None, as_of |-> None,
     nav |-> None, returns |-> <<>>]

periods == cfg.periods

fund == cfg.funds[fi]

\* the state at the start of main(); afterEarlier: the run may find the
\* files of an earlier run
Start(configs, afterEarlier) ==
    /\ cfg \in configs
    /\ files0 \in IF afterEarlier THEN {NoFiles, PriorFiles(cfg.periods)}
                                  ELSE {NoFiles}
    /\ files = files0
    /\ pc = IF Len(cfg.funds) = 0 THEN "write_latest" ELSE "fetch_page"
    /\ exc = ""
    /\ fi = 1
    /\ pi = 1
    /\ page = <<>>
    /\ download_links = <<>>
    /\ dfs_by_period = <<>>
    /\ series_by_period = <<>>
    /\ snap = NoSnap
    /\ snaps = <<>>
    /\ validation_results = <<>>

\* a first run, or a run after an earlier one
Init == Start(Configs, TRUE)

\* where the loop over the periods goes after the turn for periods[pi]
AfterPeriod == IF pi >= Len(periods) THEN "normalize" ELSE "period"

\* http_get of the fund page, and find_download_links
FetchPage(pages) ==
    /\ pc = "fetch_page"
    /\ \E html \in pages :
          /\ page' = html
          /\ download_links' = find_download_links(html, fund.url)
    /\ dfs_by_period' = <<>>
    /\ series_by_period' = <<>>
    /\ pi' = 1
    /\ pc' = IF Len(periods) = 0 THEN "normalize" ELSE "period"
    /\ UNCHANGED <<cfg, exc, fi, snap, snaps, validation_results, files, files0>>

\* http_get of the fund page raises after its retries
FetchPageFails ==
    /\ pc = "fetch_page"
    /\ pc' = "aborted"
    /\ exc' = "transport"
    /\ UNCHANGED <<cfg, fi, pi, page, download_links, dfs_by_period,
                   series_by_period, snap, snaps, validation_results, files, files0>>

\* if not url: continue
SkipPeriod ==
    /\ pc = "period"
    /\ ~HasKey(download_links, periods[pi])
    /\ pi' = pi + 1
    /\ pc' = AfterPeriod
    /\ UNCHANGED <<cfg, exc, fi, page, download_links, dfs_by_period,
                   series_by_period, snap, snaps, validation_results, files, files0>>

\* the call of extract_nav_series(df) inside try/except Exception: main.py
\* defines and imports no such name, the call raises NameError and the
\* handler stores the empty list
NavSeriesOrEmpty(df) == <<>>

\* the file is fetched and decoded
FetchFile(tables) ==
    /\ pc = "period"
    /\ HasKey(download_links, periods[pi])
    /\ \E df \in tables :
          /\ dfs_by_period' = Put(dfs_by_period, periods[pi], df)
          /\ series_by_period' = Put(series_by_period, periods[pi], NavSeriesOrEmpty(df))
    /\ pi' = pi + 1
    /\ pc' = AfterPeriod
    /\ UNCHANGED <<cfg, exc, fi, page, download_links, snap, snaps,
                   validation_results, files, files0>>

\* http_get of the file raises after its retries
FetchFileFails ==
    /\ pc = "period"
    /\ HasKey(download_links, periods[pi])
    /\ pc' = "aborted"
    /\ exc' = "transport"
    /\ UNCHANGED <<cfg, fi, pi, page, download_links, dfs_by_period,
                   series_by_period, snap, snaps, validation_results, files, files0>>

\* parse_download_file raises: the call is outside any try
DecodeFails ==
    /\ pc = "period"
    /\ HasKey(download_links, periods[pi])
    /\ pc' = "aborted"
    /\ exc' = "decode"
    /\ UNCHANGED <<cfg, fi, pi, page, download_links, dfs_by_period,
                   series_by_period, snap, snaps, validation_results, files, files0>>

\* snap = normalize_snapshot_from_dfs(...); snaps.append(snap)
Normalize ==
    /\ pc = "normalize"
    /\ ~NormalizeRaises(dfs_by_period)
    /\ snap' = normalize_snapshot_from_dfs(fund.name, dfs_by_period)
    /\ snaps' = Append(snaps, snap')
    /\ pc' = "validate"
    /\ UNCHANGED <<cfg, exc, fi, pi, page, download_links, dfs_by_period,
                   series_by_period, validation_results, files, files0>>

\* normalize_snapshot_from_dfs raises ZeroDivisionError
NormalizeFails ==
    /\ pc = "normalize"
    /\ NormalizeRaises(dfs_by_period)
    /\ pc' = "aborted"
    /\ exc' = "ZeroDivisionError"
    /\ UNCHANGED <<cfg, fi, pi, page, download_links, dfs_by_period,
                   series_by_period, snap, snaps, validation_results, files, files0>>

\* validation_results.append(validate_fund(...))
Validate ==
    /\ pc = "validate"
    /\ validation_results' =
          Append(validation_results,
                 validate_fund(fund.name, download_links, dfs_by_period,
                               series_by_period, snap.returns, periods))
    /\ pc' = "append"
    /\ UNCHANGED <<cfg, exc, fi, pi, page, download_links, dfs_by_period,
                   series_by_period, snap, snaps, files, files0>>

\* AppendHistory with the latest view rewritten after every fund
AppendHistory_WritesLatest ==
    /\ pc = "append"
    /\ files' = [files EXCEPT !.history = append_history(@, snap, periods),
                              !.latest = write_latest(snaps, periods)]
    /\ fi' = fi + 1
    /\ pc' = IF fi >= Len(cfg.funds) THEN "write_latest" ELSE "fetch_page"
    /\ UNCHANGED <<cfg, exc, pi, page, download_links, dfs_by_period,
                   series_by_period, snap, snaps, validation_results, files0>>

\* append_history(...), and the next turn of the loop over the funds
AppendHistory ==
    /\ pc = "append"
    /\ files' = [files EXCEPT !.history = append_history(@, snap, periods)]
    /\ fi' = fi + 1
    /\ pc' = IF fi >= Len(cfg.funds) THEN "write_latest" ELSE "fetch_page"
    /\ UNCHANGED <<cfg, exc, pi, page, download_links, dfs_by_period,
                   series_by_period, snap, snaps, validation_results, files0>>

WriteLatest ==
    /\ pc = "write_latest"
    /\ files' = [files EXCEPT !.latest = write_latest(snaps, periods)]
    /\ pc' = "write_report"
    /\ UNCHANGED <<cfg, exc, fi, pi, page, download_links, dfs_by_period,
                   series_by_period, snap, snaps, validation_results, files0>>

WriteReport ==
    /\ pc = "write_report"
    /\ files' = [files EXCEPT !.report = write_report(snaps, periods)]
    /\ pc' = "write_validation"
    /\ UNCHANGED <<cfg, exc, fi, pi, page, download_links, dfs_by_period,
                   series_by_period, snap, snaps, validation_results, files0>>

\* write_validation_reports: the JSON file, then the text file
WriteValidation ==
    /\ pc = "write_validation"
    /\ files' = [files EXCEPT
                    !.validation_json = write_validation_json(validation_results),
                    !.validation_txt = write_validation_txt(validation_results)]
    /\ pc' = "done"
    /\ UNCHANGED <<cfg, exc, fi, pi, page, download_links, dfs_by_period,
                   series_by_period, snap, snaps, validation_results, files0>>

Next ==
    \/ FetchPage(SmallPages)
    \/ FetchPageFails
    \/ SkipPeriod
    \/ FetchFile(Tables)
    \/ FetchFileFails
    \/ DecodeFails
    \/ Normalize
    \/ NormalizeFails
    \/ Validate
    \/ AppendHistory
    \/ WriteLatest
    \/ WriteReport
    \/ WriteValidation

Spec == Init /\ [][Next]_vars

---------------------------------------------------------------------------
(* The runs of the link resolver alone: a first run over one fund, up to    *)
(* the resolution of its links, for every page of up to MaxLinks links.     *)

LinkConfigs ==
    {[periods |-> ps, funds |-> <<f>>] :
        ps \in {<<2, 1>>, DefaultPeriods}, f \in {Fund(1), Fund(2)}}

InitLinks == Start(LinkConfigs, FALSE)

NextLinks ==
    \/ FetchPage(RichPages)
    \/ FetchPageFails

SpecLinks == InitLinks /\ [][NextLinks]_vars

---------------------------------------------------------------------------
(* Definitions shared by the properties.                                    *)

\* the series the Series Extractor yields for a decoded period
SeriesOf(p) == _extract_series(dropna(Get(dfs_by_period, p)))

\* the decoded periods whose series has at least n points
WithPoints(n) == {p \in KeySet(dfs_by_period) : Len(SeriesOf(p).vals) >= n}

\* the decoded periods with two points or more and a first value of zero
ZeroFirst == {p \in WithPoints(2) : DivRaises(SeriesOf(p).vals[1])}

Shortest(S) == CHOOSE p \in S : \A q \in S : p <= q

\* a candidate link: the three markers and a period the pattern matches
IsCandidate(href) == HasMarkers(href) /\ HasPeriodMatch(href)

\* the places of the page holding a candidate for period p
CandidatesFor(p) ==
    {j \in 1..Len(page) : IsCandidate(page[j]) /\ PeriodOf(page[j]) = p}

Max(S) == CHOOSE j \in S : \A k \in S : k <= j

\* the links of the page have been resolved for the fund at hand
LinksResolved == pc \in {"period", "normalize"}

\* the rows of the history journal before the run
PriorLines == files0.history.lines

\* the rows the run has added to the journal, the header it wrote left out
AddedRows ==
    IF files0.history.exists THEN Drop(files.history.lines, Len(PriorLines))
    ELSE IF files.history.exists THEN Tail(files.history.lines)
    ELSE <<>>

\* the four outputs written at the end of a run
EndOutputs(f) == <<f.latest, f.report, f.validation_json, f.validation_txt>>

---------------------------------------------------------------------------
(* C1: whatever the order of the configured periods, the snapshot takes     *)
(* NAV and as-of from the shortest decoded period whose series has at       *)
(* least one point.                                                         *)
C1_ShortestPeriodSuppliesNav ==
    (pc \in {"validate", "append"} /\ WithPoints(1) # {}) =>
        LET ser == SeriesOf(Shortest(WithPoints(1)))
        IN /\ snap.nav = Format2(ser.vals[Len(ser.vals)])
           /\ snap.as_of = ser.dates[Len(ser.dates)]

(* C2: when a decoded period has two points or more and a first value of    *)
(* zero, the snapshot is still built: that period has no return and every   *)
(* other period with two points has one.                                    *)
C2_ZeroFirstValueIsOmitted ==
    [][(pc = "normalize" /\ ZeroFirst # {}) =>
          /\ pc' = "validate"
          /\ \A p \in ZeroFirst : ~HasKey(snap'.returns, p)
          /\ \A p \in WithPoints(2) \ ZeroFirst : HasKey(snap'.returns, p)]_vars

(* C3: a decode failure leaves the run going: the loop moves to the next    *)
(* period with the failed period left out of the decoded set.               *)
C3_DecodeFailureIsLocal ==
    [][(pc = "period" /\ exc' = "decode") =>
          /\ pc' = AfterPeriod
          /\ pi' = pi + 1
          /\ ~HasKey(dfs_by_period', periods[pi])]_vars

(* C4: a fund whose configured periods all have a link, a decoded file and  *)
(* a series of two points or more gets ok = true.                           *)
C4_CompleteFundIsOk ==
    (/\ pc = "append"
     /\ \A i \in 1..Len(periods) :
           /\ HasKey(download_links, periods[i])
           /\ HasKey(dfs_by_period, periods[i])
           /\ periods[i] \in WithPoints(2))
    => validation_results[fi].ok

\* the URL the claim gives for a link target
ClaimedUrl(href, base_url) ==
    IF \/ StartsWith(href, <<"/","/">>)
       \/ StartsWith(href, <<"h","t","t","p",":","/","/">>)
       \/ StartsWith(href, <<"h","t","t","p","s",":","/","/">>)
    THEN href
    ELSE IF StartsWith(href, <<"/">>) THEN ORIGIN \o href
    ELSE RStripChar(base_url, "/") \o <<"/">> \o LStripChar(href, "/")

(* C5: every URL of the link map is built from a candidate link of the      *)
(* page: verbatim for a scheme-relative or absolute target, on the fixed    *)
(* origin for a root-relative one, on the fund's base URL otherwise.        *)
C5_UrlResolution ==
    LinksResolved =>
        \A p \in KeySet(download_links) :
            \E j \in CandidatesFor(p) :
                Get(download_links, p) = ClaimedUrl(page[j], fund.url)

\* the periods the candidates of the page carry
CandidatePeriods ==
    {PeriodOf(page[j]) : j \in {k \in 1..Len(page) : IsCandidate(page[k])}}

(* C6: the link map has an entry for a period exactly when the page has a   *)
(* candidate for it and the period is a configured one.                     *)
C6_ConfiguredPeriodsOnly ==
    LinksResolved =>
        \A p \in CandidatePeriods \cup KeySet(download_links) :
            HasKey(download_links, p) <=>
                (p \in CandidatePeriods /\ \E i \in 1..Len(periods) : periods[i] = p)

(* C7: the URL stored for a period is the one of the last candidate link    *)
(* of the page for that period; links that are no candidates store nothing. *)
C7_LastLinkWins ==
    LinksResolved =>
        \A p \in KeySet(download_links) :
            /\ CandidatesFor(p) # {}
            /\ Get(download_links, p) =
                   ResolveHref(page[Max(CandidatesFor(p))], fund.url)

\* two candidates for one period with different URLs, the later one stored,
\* and after them a link for that period that is no candidate
C7_Witness ==
    /\ LinksResolved
    /\ \E p \in KeySet(download_links) :
          \E i, j \in CandidatesFor(p) :
              /\ i < j
              /\ ResolveHref(page[i], fund.url) # ResolveHref(page[j], fund.url)
              /\ Get(download_links, p) = ResolveHref(page[j], fund.url)
              /\ \E k \in (j + 1)..Len(page) :
                    /\ ~IsCandidate(page[k])
                    /\ Contains(page[k], S_PERIOD \o NatToStr(p))

\* the row is one the claim lets into the series
ClaimedGoodRow(row, dc, vc) ==
    LET d == Strip(row[dc])
    IN /\ _to_float_pl(row[vc]).k = "fin"
       /\ d # <<>>
       /\ Lower(d) # S_NAN
       /\ ~StartsWith(Lower(d), S_DATA)

\* the k-th smallest element of a set of numbers
RECURSIVE Nth(_, _)
Nth(S, k) ==
    LET m == CHOOSE x \in S : \A y \in S : x <= y
    IN IF k = 1 THEN m ELSE Nth(S \ {m}, k - 1)

\* the series comes, in order, from rows the claim lets in
ClaimedSeries(df) ==
    LET c   == SeriesColumns(df)
        ser == _extract_series(df)
        n   == Len(ser.dates)
    IN /\ Len(ser.vals) = n
       /\ n > 0 =>
            \E R \in SUBSET (1..Len(df.rows)) :
                /\ Cardinality(R) = n
                /\ \A k \in 1..n :
                      LET row == df.rows[Nth(R, k)]
                      IN /\ ClaimedGoodRow(row, c[1], c[2])
                         /\ ser.dates[k] = Strip(row[c[1]])
                         /\ ser.vals[k] = _to_float_pl(row[c[2]])

(* C8: every pair of an extracted series comes from a row whose value       *)
(* parsed to a finite number and whose date is not empty, not "nan" and not *)
(* a repeated header; the pairs keep the order of the rows and the two      *)
(* lists have one length.                                                   *)
C8_SeriesRowsAreClean ==
    \A i \in 1..Len(dfs_by_period) : ClaimedSeries(dropna(dfs_by_period[i][2]))

(* C9: the journal keeps the rows it had, and the rows of the run are, in   *)
(* fund order, one per fund whose snapshot is built and whose validation    *)
(* result is recorded.                                                      *)
C9_JournalAppendOnly ==
    /\ files0.history.exists =>
          /\ files.history.exists
          /\ SubSeq(files.history.lines, 1, Len(PriorLines)) = PriorLines
    /\ Len(AddedRows) <= Len(cfg.funds)
    /\ Len(AddedRows) = fi - 1
    /\ \A i \in 1..Len(AddedRows) :
          /\ i <= Len(snaps)
          /\ i <= Len(validation_results)
          /\ validation_results[i].fund = cfg.funds[i].name
          /\ AddedRows[i] = CsvRow(snaps[i], periods)
          /\ AddedRows[i][2] = cfg.funds[i].name

\* a finished run over two funds, after an earlier run
C9_Witness ==
    /\ pc = "done"
    /\ files0.history.exists
    /\ Len(cfg.funds) >= 2
    /\ Len(AddedRows) = Len(cfg.funds)

(* C10: the latest view, the report and the validation reports change only  *)
(* once every fund is processed; a run that aborts on fund k leaves them as *)
(* they were, with one journal row for each of the funds before k.          *)
C10_EndOutputsAfterAllFunds ==
    /\ EndOutputs(files) # EndOutputs(files0) =>
          /\ pc \in {"write_report", "write_validation", "done"}
          /\ Len(snaps) = Len(cfg.funds)
          /\ Len(validation_results) = Len(cfg.funds)
          /\ Len(AddedRows) = Len(cfg.funds)
    /\ pc = "aborted" =>
          /\ EndOutputs(files) = EndOutputs(files0)
          /\ Len(AddedRows) = fi - 1
          /\ \A i \in 1..(fi - 1) : AddedRows[i][2] = cfg.funds[i].name

\* a run that aborts on its second fund, with the outputs of an earlier run
C10_Witness ==
    /\ pc = "aborted"
    /\ fi = 2
    /\ files0.latest.exists
    /\ Len(AddedRows) = 1

=============================================================================
